---- MODULE Spec2Model ----
(***************************************************************************)
(* csvn: a zero-allocation CSV tokenizer (src/csvn.h).                     *)
(*                                                                         *)
(* The model follows csvn_parse statement by statement: one action per     *)
(* case of the dispatch loop, one per iteration of each scanner loop, one  *)
(* for the tail of each scanner and one for the code that follows each     *)
(* scanner call in csvn_parse.  The compile-time macros are the record     *)
(* cfg, fixed in Init.  Offsets are 0-based as in C: byte i of the text    *)
(* is text[i + 1].  CSVN_CONSIDER_NL is taken as undefined: with it        *)
(* defined the statement "line++" of csvn_parse_quotes has no semicolon    *)
(* and the header does not compile.                                        *)
(*                                                                         *)
(* The caller owns one array of num_tok slots and, call by call, passes    *)
(* it or NULL; between calls it may reset the cursor with csvn_init.       *)
(***************************************************************************)
EXTENDS Integers, Sequences, FiniteSets, TLC

(* ---------------------------------------------------------------------- *)
(* Bounds of the model                                                     *)
(* ---------------------------------------------------------------------- *)
MaxLen == 2
MaxTail == 1
MaxTok == 3
MaxCalls == 2

(* ---------------------------------------------------------------------- *)
(* Program constants                                                       *)
(* ---------------------------------------------------------------------- *)
CSVN_NEWLINE == "\n"
CSVN_DELIM == ","
QUOTE == "\""
SPACE == " "
NUL == "NUL"
NOT_ENOUGH_MEM == -1
INVALID_CHARACTER == -2

(* Bytes the inputs are drawn from: one ordinary byte and every byte the   *)
(* parser treats specially.  The sample texts use further ordinary bytes.  *)
(* Without CSVN_SKIP_WHITESPACE no line of the parser tests for a space,   *)
(* which is then an ordinary byte: Init draws it only under that macro.    *)
Char == {"a", CSVN_DELIM, CSVN_NEWLINE, QUOTE, SPACE}
Byte == Char \cup {NUL}

Strings(n) == UNION {[1..k -> Char] : k \in 0..n}

(* Inputs named by the documentation and the tests' shapes.                *)
SampleThree == <<"a", ",", "b", ",", "c">>
SampleEscaped == <<"\"", "a", "\"", "\"", "b", "\"">>
SampleLines == <<"a", ",", "b", "\n", "c", ",", "d">>
SampleEmpty == <<"a", ",", ",", "b">>
SampleQuotedNL == <<"\"", "a", "\n", "b", "\"", ",", "c">>
SampleSpaced == <<"a", ",", " ", "b", "\n", "c">>
SampleBlank == <<"a", ",", " ">>
SampleStrict == <<"\"", "a", "\"", "b">>
Samples == {SampleThree, SampleEscaped, SampleLines, SampleEmpty, SampleQuotedNL,
            SampleSpaced, SampleBlank, SampleStrict}

Texts == Strings(MaxLen) \cup Samples

Configs == {c \in [strict : BOOLEAN, no_empty : BOOLEAN,
                   ignore_empty : BOOLEAN, skip_ws : BOOLEAN] :
              ~(c.no_empty /\ c.ignore_empty)}

VARIABLES
  text,      \* the bytes at the text pointer, up to its '\0' terminator
  textlen,   \* the textlen argument
  cfg,       \* the macros the header was compiled with
  pos, toknext, line,   \* struct csv_p
  tokens,    \* the memory at tokpool, slot index -> struct csv_t
  poolnull,  \* tokpool == NULL in the current call
  num_tok,   \* the num_tok argument: the capacity of the caller's array
  pc,        \* position inside csvn_parse, "idle" between calls
  parsed,    \* local of csvn_parse
  res,       \* local of csvn_parse: result of the last scanner call
  start,     \* local of the running scanner
  fline,     \* local 'line' of the running scanner
  entry,     \* the cursor as it was when the current call started
  iterpos,   \* pos at the start of the current dispatch-loop iteration
  maxread,   \* highest offset of text read so far in the current call
  calls      \* completed calls, oldest first

vars == <<text, textlen, cfg, pos, toknext, line, tokens, poolnull, num_tok,
          pc, parsed, res, start, fline, entry, iterpos, maxread, calls>>

Max(a, b) == IF a > b THEN a ELSE b

(* A slot of the caller's array that no call has written yet.              *)
Untouched == [start |-> 0, end |-> 0, line |-> 0, size |-> 0, token |-> "UNWRITTEN"]

(* The values a read of text[i] can produce.  Offsets past the terminator  *)
(* lie outside the object: any byte may come back.                         *)
Read(i) ==
  IF i < Len(text) THEN {text[i + 1]}
  ELSE IF i = Len(text) THEN {NUL}
  ELSE Byte

(* text[p] != '\0' && p < textlen, the guard of all three loops.           *)
InText(c, p) == c # NUL /\ p < textlen

(* csvn_allocate_token, the test that refuses a slot.                      *)
PoolExhausted(tn, n) == tn > n

(* csvn_allocate_token past its tests: slot tn zeroed and marked UNASSIGN. *)
csvn_allocate_token(tn) ==
  [tokens EXCEPT ![tn] = [start |-> 0, end |-> 0, line |-> 0, size |-> 0,
                          token |-> "UNASSIGN"]]

(* csvn_fill_token without its last assignment, csv_t->token = token.      *)
csvn_fill_tokenNoKind(s, e, l, kind) ==
  [start |-> s, end |-> e, line |-> l, size |-> e - s, token |-> "UNASSIGN"]

(* csvn_fill_token *)
csvn_fill_token(s, e, l, kind) ==
  [start |-> s, end |-> e, line |-> l, size |-> e - s, token |-> kind]

(* The kind csvn_parse_normal passes to csvn_fill_token.                   *)
NormalKind == "DQUOTE"

(* Store without the "tokpool != NULL" test around the allocation.         *)
StoreUnguarded(s, e, l, kind) ==
  IF poolnull \/ PoolExhausted(toknext, num_tok)
  THEN [res |-> NOT_ENOUGH_MEM, tokens |-> tokens, toknext |-> toknext]
  ELSE [res |-> 0,
        tokens |-> [tokens EXCEPT ![toknext] = csvn_fill_token(s, e, l, kind)],
        toknext |-> toknext + 1]

(* Store with &tokens[csv_p->toknext] in place of &tokens[csv_p->toknext++]. *)
StoreNoAdvance(s, e, l, kind) ==
  IF poolnull THEN [res |-> 0, tokens |-> tokens, toknext |-> toknext]
  ELSE IF PoolExhausted(toknext, num_tok)
       THEN [res |-> NOT_ENOUGH_MEM, tokens |-> tokens, toknext |-> toknext]
       ELSE [res |-> 0,
             tokens |-> [csvn_allocate_token(toknext)
                           EXCEPT ![toknext] = csvn_fill_token(s, e, l, kind)],
             toknext |-> toknext]

(* "if (tokpool != NULL) { allocate; if NULL return NOT_ENOUGH_MEM; fill }" *)
(* as a function of the cursor: the result code, the array and toknext.    *)
Store(s, e, l, kind) ==
  IF poolnull THEN [res |-> 0, tokens |-> tokens, toknext |-> toknext]
  ELSE IF PoolExhausted(toknext, num_tok)
       THEN [res |-> NOT_ENOUGH_MEM, tokens |-> tokens, toknext |-> toknext]
       ELSE [res |-> 0,
             tokens |-> [csvn_allocate_token(toknext)
                           EXCEPT ![toknext] = csvn_fill_token(s, e, l, kind)],
             toknext |-> toknext + 1]

CallRecord(r) ==
  [ret |-> r, poolnull |-> poolnull, num_tok |-> num_tok, entry |-> entry,
   pos |-> pos', line |-> line', toknext |-> toknext', maxread |-> maxread']

(* return r; from csvn_parse *)
Return(r) ==
  /\ pc' = "idle"
  /\ calls' = Append(calls, CallRecord(r))

Init ==
  /\ text \in Texts
  /\ textlen \in {Len(text) - t : t \in 0..MaxTail} \cap Nat
  /\ cfg \in Configs
  /\ (cfg.skip_ws \/ \A i \in 1..Len(text) : text[i] # SPACE)
  /\ num_tok \in 0..MaxTok
  /\ pos = 0 /\ toknext = 0 /\ line = 1
  /\ tokens = [i \in 0..MaxTok |-> Untouched]
  /\ poolnull = TRUE
  /\ pc = "idle"
  /\ parsed = 0 /\ res = 0 /\ start = 0 /\ fline = 0
  /\ entry = [pos |-> 0, toknext |-> 0, line |-> 1]
  /\ iterpos = 0
  /\ maxread = -1
  /\ calls = <<>>

(* csvn_init *)
csvn_init ==
  /\ pc = "idle"
  /\ Len(calls) < MaxCalls
  /\ <<pos, toknext, line>> # <<0, 0, 1>>
  /\ pos' = 0 /\ toknext' = 0 /\ line' = 1
  /\ UNCHANGED <<text, textlen, cfg, tokens, poolnull, num_tok, pc, parsed, res,
                 start, fline, entry, iterpos, maxread, calls>>

(* The caller enters csvn_parse, passing its array or NULL as tokpool.     *)
Call ==
  /\ pc = "idle"
  /\ Len(calls) < MaxCalls
  /\ poolnull' \in BOOLEAN
  /\ parsed' = 0 /\ res' = 0
  /\ entry' = [pos |-> pos, toknext |-> toknext, line |-> line]
  /\ iterpos' = pos
  /\ maxread' = -1
  /\ pc' = "loop"
  /\ UNCHANGED <<text, textlen, cfg, pos, toknext, line, tokens, num_tok, start,
                 fline, calls>>


(* ---------------------------------------------------------------------- *)
(* csvn_parse: the dispatch loop                                           *)
(* ---------------------------------------------------------------------- *)

(* The loop guard fails: return parsed.                                    *)
LoopExit ==
  /\ pc = "loop"
  /\ \E c \in Read(pos) :
       /\ ~InText(c, pos)
       /\ maxread' = Max(maxread, pos)
       /\ UNCHANGED <<pos, toknext, line>>
       /\ Return(parsed)
  /\ UNCHANGED <<text, textlen, cfg, tokens, poolnull, num_tok, parsed, res,
                 start, fline, entry, iterpos>>

(* csv_p->line++ forgotten.                                                *)
LineAfterNewlineStuck(l) == l

(* csv_p->line++ of case CSVN_NEWLINE.                                     *)
LineAfterNewline(l) == l + 1

(* case CSVN_NEWLINE *)
DispatchNewline ==
  /\ pc = "loop"
  /\ \E c \in Read(pos) :
       /\ InText(c, pos)
       /\ c = CSVN_NEWLINE
  /\ line' = LineAfterNewline(line)
  /\ pos' = pos + 1
  /\ iterpos' = pos + 1
  /\ maxread' = Max(maxread, pos)
  /\ UNCHANGED <<text, textlen, cfg, toknext, tokens, poolnull, num_tok, pc,
                 parsed, res, start, fline, entry, calls>>

(* The whitespace loop of CSVN_SKIP_WHITESPACE: the first offset >= p that *)
(* does not hold a space.  The terminator stops it at the latest.          *)
RECURSIVE SkipSpaces(_)
SkipSpaces(p) ==
  IF p < Len(text) /\ text[p + 1] = SPACE THEN SkipSpaces(p + 1) ELSE p

(* case CSVN_DELIM without its csv_p->pos++.                               *)
AfterDelimStuck(p) == p

(* Where case CSVN_DELIM looks for a second delimiter.                     *)
AfterDelim(p) == IF cfg.skip_ws THEN SkipSpaces(p + 1) ELSE p + 1

(* The span csvn_parse gives an EMPTY token, from the offset q at which    *)
(* the second delimiter was found.                                         *)
EmptyStart(q) == q - 1
EmptyEnd(q) == q

(* The policy without its CSVN_IGNORE_EMPTY_FIELD branch.                  *)
EmptyPolicyIgnoreDropped(c) == IF c.no_empty THEN "error" ELSE "emit"

(* #ifdef CSVN_NO_EMPTY_FIELD / #elif CSVN_IGNORE_EMPTY_FIELD / #else      *)
EmptyPolicy(c) ==
  IF c.no_empty THEN "error"
  ELSE IF c.ignore_empty THEN "ignore"
  ELSE "emit"

(* case CSVN_DELIM *)
DispatchDelim ==
  /\ pc = "loop"
  /\ \E c \in Read(pos) :
       /\ InText(c, pos)
       /\ c = CSVN_DELIM
  /\ LET q == AfterDelim(pos)
         st == Store(EmptyStart(q), EmptyEnd(q), line, "EMPTY")
     IN
     /\ pos' = q
     /\ maxread' = Max(maxread, q)
     /\ \E c2 \in Read(q) :
          IF c2 # CSVN_DELIM
          THEN /\ pc' = "loop" /\ iterpos' = q
               /\ UNCHANGED <<toknext, tokens, parsed, calls, line>>
          ELSE IF EmptyPolicy(cfg) = "error"
          THEN /\ UNCHANGED <<toknext, tokens, parsed, iterpos, line>>
               /\ Return(INVALID_CHARACTER)
          ELSE IF EmptyPolicy(cfg) = "ignore"
          THEN /\ pc' = "loop" /\ iterpos' = q
               /\ UNCHANGED <<toknext, tokens, parsed, calls, line>>
          ELSE IF st.res # 0
          THEN /\ UNCHANGED <<toknext, tokens, parsed, iterpos, line>>
               /\ Return(st.res)
          ELSE /\ tokens' = st.tokens
               /\ toknext' = st.toknext
               /\ parsed' = parsed + 1
               /\ pc' = "loop" /\ iterpos' = q
               /\ UNCHANGED <<calls, line>>
  /\ UNCHANGED <<text, textlen, cfg, poolnull, num_tok, res, start, fline, entry>>

(* case '\"': skip the opening quote and enter csvn_parse_quotes.          *)
DispatchQuote ==
  /\ pc = "loop"
  /\ \E c \in Read(pos) :
       /\ InText(c, pos)
       /\ c = QUOTE
  /\ pos' = pos + 1
  /\ start' = pos + 1
  /\ fline' = line
  /\ maxread' = Max(maxread, pos)
  /\ pc' = "quotes"
  /\ UNCHANGED <<text, textlen, cfg, toknext, line, tokens, poolnull, num_tok,
                 parsed, res, entry, iterpos, calls>>

(* default: enter csvn_parse_normal.                                       *)
DispatchDefault ==
  /\ pc = "loop"
  /\ \E c \in Read(pos) :
       /\ InText(c, pos)
       /\ c \notin {CSVN_NEWLINE, CSVN_DELIM, QUOTE}
  /\ start' = pos
  /\ fline' = line
  /\ maxread' = Max(maxread, pos)
  /\ pc' = "normal"
  /\ UNCHANGED <<text, textlen, cfg, pos, toknext, line, tokens, poolnull,
                 num_tok, parsed, res, entry, iterpos, calls>>

(* ---------------------------------------------------------------------- *)
(* csvn_parse_quotes                                                       *)
(* ---------------------------------------------------------------------- *)

(* One iteration of the while loop that does not break.  CSVN_CONSIDER_NL  *)
(* is undefined, so the local line is left alone.                          *)
QuotesStep ==
  /\ pc = "quotes"
  /\ \E c \in Read(pos) :
       /\ InText(c, pos)
       /\ IF c = QUOTE
          THEN /\ \E c1 \in Read(pos + 1) : c1 = QUOTE
               /\ pos' = pos + 2
               /\ line' = line
               /\ maxread' = Max(maxread, pos + 1)
          ELSE /\ pos' = pos + 1
               /\ line' = IF c = CSVN_NEWLINE THEN line + 1 ELSE line
               /\ maxread' = Max(maxread, pos)
  /\ UNCHANGED <<text, textlen, cfg, toknext, tokens, poolnull, num_tok, pc,
                 parsed, res, start, fline, entry, iterpos, calls>>

(* end taken at the closing quote instead of before it.                   *)
QuotedEndAtQuote(p) == p

(* The last byte of a quoted field, from the offset at which the scan      *)
(* stopped.                                                                *)
QuotedEnd(p) == p - 1

(* The loop ends (guard false, or a quote not followed by a quote); the    *)
(* token is stored and the function returns.                               *)
QuotesEnd ==
  /\ pc = "quotes"
  /\ \E c \in Read(pos) :
       \/ /\ ~InText(c, pos)
          /\ maxread' = Max(maxread, pos)
       \/ /\ InText(c, pos)
          /\ c = QUOTE
          /\ \E c1 \in Read(pos + 1) : c1 # QUOTE
          /\ maxread' = Max(maxread, pos + 1)
  /\ LET st == Store(start, QuotedEnd(pos), fline, "DQUOTE") IN
     /\ res' = st.res
     /\ tokens' = st.tokens
     /\ toknext' = st.toknext
  /\ pc' = "after_quotes"
  /\ UNCHANGED <<text, textlen, cfg, pos, line, poolnull, num_tok, parsed,
                 start, fline, entry, iterpos, calls>>

(* The strict test with every byte accepted after the closing quote.       *)
ClosesFieldAny(c, p) == TRUE

(* "closing quote has to be followed by a delimiter, newline or end of     *)
(* file": the bytes CSVN_STRICT accepts at offset p.                       *)
ClosesField(c, p) == c \in {CSVN_DELIM, CSVN_NEWLINE} \/ ~InText(c, p)

(* csvn_parse after the call of csvn_parse_quotes.                         *)
AfterQuotes ==
  /\ pc = "after_quotes"
  /\ IF res # 0
     THEN /\ UNCHANGED <<pos, parsed, iterpos, maxread, toknext, line>>
          /\ Return(res)
     ELSE /\ pos' = pos + 1
          /\ IF cfg.strict
             THEN /\ maxread' = Max(maxread, pos + 1)
                  /\ \E c \in Read(pos + 1) :
                       IF ~ClosesField(c, pos + 1)
                       THEN /\ UNCHANGED <<parsed, iterpos, toknext, line>>
                            /\ Return(INVALID_CHARACTER)
                       ELSE /\ parsed' = parsed + 1
                            /\ pc' = "loop" /\ iterpos' = pos + 1
                            /\ UNCHANGED calls
             ELSE /\ parsed' = parsed + 1
                  /\ pc' = "loop" /\ iterpos' = pos + 1
                  /\ UNCHANGED <<maxread, calls>>
  /\ UNCHANGED <<text, textlen, cfg, tokens, poolnull, num_tok, res,
                 start, fline, entry>>
  /\ toknext' = toknext /\ line' = line

(* ---------------------------------------------------------------------- *)
(* csvn_parse_normal                                                       *)
(* ---------------------------------------------------------------------- *)

(* The for loop with the newline test left out.                           *)
EndsFieldDelimOnly(c) == c = CSVN_DELIM

(* The bytes that stop the for loop besides the end of the text.           *)
EndsField(c) == c \in {CSVN_NEWLINE, CSVN_DELIM}

(* One iteration of the for loop; under CSVN_STRICT a quote byte returns   *)
(* INVALID_CHARACTER, which csvn_parse hands on.                           *)
NormalStep ==
  /\ pc = "normal"
  /\ \E c \in Read(pos) :
       /\ InText(c, pos)
       /\ ~EndsField(c)
       /\ maxread' = Max(maxread, pos)
       /\ IF cfg.strict /\ c = QUOTE
          THEN /\ UNCHANGED <<pos, toknext, line>>
               /\ Return(INVALID_CHARACTER)
          ELSE /\ pos' = pos + 1
               /\ UNCHANGED <<pc, calls, toknext, line>>
  /\ UNCHANGED <<text, textlen, cfg, tokens, poolnull, num_tok, parsed, res,
                 start, fline, entry, iterpos>>

(* The step back taken as two bytes.                                       *)
StepBackTwice(c, p) == IF c \in {CSVN_NEWLINE, CSVN_DELIM} THEN p - 2 ELSE p

(* "let the main loop handle newlines and delimeters": pos after the test  *)
(* that follows the for loop.                                              *)
StepBack(c, p) == IF c \in {CSVN_NEWLINE, CSVN_DELIM} THEN p - 1 ELSE p

(* The for loop ends: step back from a delimiter or newline, store the     *)
(* token and return.                                                       *)
NormalEnd ==
  /\ pc = "normal"
  /\ \E c \in Read(pos) :
       /\ ~(InText(c, pos) /\ ~EndsField(c))
       /\ LET p == StepBack(c, pos)
              st == Store(start, p, fline, NormalKind)
          IN
          /\ pos' = p
          /\ res' = st.res
          /\ tokens' = st.tokens
          /\ toknext' = st.toknext
  /\ maxread' = Max(maxread, pos)
  /\ pc' = "after_normal"
  /\ UNCHANGED <<text, textlen, cfg, line, poolnull, num_tok, parsed,
                 start, fline, entry, iterpos, calls>>

(* csvn_parse after the call of csvn_parse_normal.                         *)
AfterNormal ==
  /\ pc = "after_normal"
  /\ IF res # 0
     THEN /\ UNCHANGED <<pos, parsed, iterpos, toknext, line, maxread>>
          /\ Return(res)
     ELSE /\ parsed' = parsed + 1
          /\ pos' = pos + 1
          /\ pc' = "loop" /\ iterpos' = pos + 1
          /\ UNCHANGED <<calls, toknext, line, maxread>>
  /\ UNCHANGED <<text, textlen, cfg, tokens, poolnull, num_tok, res,
                 start, fline, entry>>

Next ==
  \/ csvn_init
  \/ Call
  \/ LoopExit
  \/ DispatchNewline
  \/ DispatchDelim
  \/ DispatchQuote
  \/ DispatchDefault
  \/ QuotesStep
  \/ QuotesEnd
  \/ AfterQuotes
  \/ NormalStep
  \/ NormalEnd
  \/ AfterNormal

Spec == Init /\ [][Next]_vars

(* ---------------------------------------------------------------------- *)
(* One call from a cursor the caller positioned by hand ("you could always *)
(* initialise the parser manually"): pos anywhere in 0..textlen.           *)
(* ---------------------------------------------------------------------- *)
InitAnyStart ==
  /\ text \in Texts
  /\ textlen \in {Len(text) - t : t \in 0..MaxTail} \cap Nat
  /\ cfg \in Configs
  /\ (cfg.skip_ws \/ \A i \in 1..Len(text) : text[i] # SPACE)
  /\ num_tok \in 0..MaxTok
  /\ pos \in 0..textlen
  /\ toknext = 0 /\ line = 1
  /\ tokens = [i \in 0..MaxTok |-> Untouched]
  /\ poolnull = TRUE
  /\ pc = "idle"
  /\ parsed = 0 /\ res = 0 /\ start = 0 /\ fline = 0
  /\ entry = [pos |-> pos, toknext |-> 0, line |-> 1]
  /\ iterpos = pos
  /\ maxread = -1
  /\ calls = <<>>

FirstCall == calls = <<>> /\ Call

NextAnyStart ==
  \/ FirstCall
  \/ LoopExit
  \/ DispatchNewline
  \/ DispatchDelim
  \/ DispatchQuote
  \/ DispatchDefault
  \/ QuotesStep
  \/ QuotesEnd
  \/ AfterQuotes
  \/ NormalStep
  \/ NormalEnd
  \/ AfterNormal

(* The steps of a call under way.  csvn_parse is straight-line C that      *)
(* never yields or waits, so a call that has started keeps taking steps.   *)
ParseStep ==
  \/ LoopExit
  \/ DispatchNewline
  \/ DispatchDelim
  \/ DispatchQuote
  \/ DispatchDefault
  \/ QuotesStep
  \/ QuotesEnd
  \/ AfterQuotes
  \/ NormalStep
  \/ NormalEnd
  \/ AfterNormal

SpecAnyStart == InitAnyStart /\ [][NextAnyStart]_vars /\ WF_vars(ParseStep)

TypeOK ==
  /\ pos \in 0..(Len(text) + 2)
  /\ toknext \in 0..(MaxTok + 1)
  /\ line \in 1..(Len(text) + 1)
  /\ pc \in {"idle", "loop", "quotes", "after_quotes", "normal", "after_normal"}


(* ---------------------------------------------------------------------- *)
(* Vocabulary of the properties                                            *)
(* ---------------------------------------------------------------------- *)

FreshCursor == [pos |-> 0, toknext |-> 0, line |-> 1]

(* Call k started right after csvn_init.                                   *)
Fresh(k) == calls[k].entry = FreshCursor

(* The first call, started from the initialised cursor, is running or has  *)
(* just returned: tokens holds what this call stored.                      *)
InFirstCall == (Len(calls) = 0 /\ pc # "idle") \/ (Len(calls) = 1 /\ pc = "idle"
                                                   /\ calls[1].pos = pos)

Written(i) == tokens[i] # Untouched

(* Every slot written so far lies inside the declared capacity.            *)
WithinCapacity == \A i \in 0..MaxTok : Written(i) => i < num_tok

(* The declared buffer: the first textlen bytes.                           *)
Buf == SubSeq(text, 1, textlen)

IsSep(c) == c \in {CSVN_DELIM, CSVN_NEWLINE}

NoQuoteByte == \A i \in 1..Len(text) : text[i] # QUOTE

(* N non-empty fields separated by single delimiter or newline bytes.      *)
ProperlySeparated ==
  /\ textlen > 0
  /\ ~IsSep(Buf[1])
  /\ ~IsSep(Buf[textlen])
  /\ \A i \in 1..(textlen - 1) : ~(IsSep(Buf[i]) /\ IsSep(Buf[i + 1]))

FieldCount == Cardinality({i \in 1..textlen : IsSep(Buf[i])}) + 1

(* Some field that directly follows a delimiter is made of spaces only.    *)
SpaceOnlyField ==
  \E i \in 1..textlen, j \in 1..textlen :
    /\ i < j
    /\ Buf[i] = CSVN_DELIM
    /\ \A k \in (i + 1)..j : Buf[k] = SPACE
    /\ (j = textlen \/ IsSep(Buf[j + 1]))

(* Number of newline bytes at offsets below p.                             *)
NewlinesBefore(p) == Cardinality({i \in 1..Len(text) : i <= p /\ text[i] = CSVN_NEWLINE})

(* get_parsed of the test driver: size + 1 bytes copied from text + start. *)
get_parsed(tok) == SubSeq(text, tok.start + 1, tok.start + tok.size + 1)

(* The text is one quoted field: a quote, a body of non-quote bytes and    *)
(* doubled quotes, a quote.                                                *)
RECURSIVE BodyFrom(_)
BodyFrom(i) ==
  IF i > Len(text) - 1 THEN TRUE
  ELSE IF text[i] = QUOTE
       THEN i + 1 <= Len(text) - 1 /\ text[i + 1] = QUOTE /\ BodyFrom(i + 2)
       ELSE BodyFrom(i + 1)

OneQuotedField ==
  /\ Len(text) >= 2
  /\ textlen = Len(text)
  /\ text[1] = QUOTE
  /\ text[Len(text)] = QUOTE
  /\ BodyFrom(2)

(* ---------------------------------------------------------------------- *)
(* C1..C10                                                                 *)
(* ---------------------------------------------------------------------- *)

(* C1: with a non-NULL tokpool no descriptor is written at a slot index    *)
(* >= num_tok, and a call never returns a count larger than num_tok (an    *)
(* input with more fields than num_tok gives NOT_ENOUGH_MEM).              *)
C1_CapacityRespected ==
  /\ (InFirstCall /\ ~poolnull) => \A i \in 0..MaxTok : Written(i) => i < num_tok
  /\ \A k \in 1..Len(calls) :
       (Fresh(k) /\ ~calls[k].poolnull) => calls[k].ret <= calls[k].num_tok

(* C2: a call with num_tok = 0, with or without a tokpool, stores no       *)
(* token and does not fail for lack of slots: it returns the field count.  *)
C2_ZeroCapacityCounts ==
  \A k \in 1..Len(calls) :
    calls[k].num_tok = 0 =>
      /\ calls[k].ret # NOT_ENOUGH_MEM
      /\ calls[k].toknext = calls[k].entry.toknext

(* A capacity that holds every field the counting pass reported (every     *)
(* byte of the buffer when that pass failed).                              *)
Sufficient(n, counted) == n >= (IF counted >= 0 THEN counted ELSE textlen)

(* C3: a counting pass (no tokpool) and, after csvn_init, a storing pass   *)
(* with sufficient capacity return the same value and leave the same pos   *)
(* and line.                                                               *)
C3_CountStoreAgree ==
  (/\ Len(calls) = 2
   /\ Fresh(1) /\ calls[1].poolnull
   /\ Fresh(2) /\ ~calls[2].poolnull
   /\ Sufficient(calls[2].num_tok, calls[1].ret))
  => /\ calls[2].ret = calls[1].ret
     /\ calls[2].pos = calls[1].pos
     /\ calls[2].line = calls[1].line

C3_Witness ==
  /\ Len(calls) = 2
  /\ Fresh(1) /\ calls[1].poolnull
  /\ Fresh(2) /\ ~calls[2].poolnull
  /\ Sufficient(calls[2].num_tok, calls[1].ret)
  /\ calls[2].ret >= 2
  /\ calls[2].toknext = calls[2].ret

(* C4 as stated: a quote-free buffer of N properly separated non-empty     *)
(* fields gives N from a fresh cursor, counting or storing with capacity   *)
(* >= N, under every configuration.                                        *)
C4_Original ==
  \A k \in 1..Len(calls) :
    (/\ Fresh(k)
     /\ NoQuoteByte /\ ProperlySeparated
     /\ (calls[k].poolnull \/ calls[k].num_tok >= FieldCount))
    => calls[k].ret = FieldCount

(* C4 amended: the same, unless CSVN_SKIP_WHITESPACE is defined and a      *)
(* field that directly follows a delimiter consists of spaces only.        *)
C4_FieldCount ==
  \A k \in 1..Len(calls) :
    (/\ Fresh(k)
     /\ NoQuoteByte /\ ProperlySeparated
     /\ ~(cfg.skip_ws /\ SpaceOnlyField)
     /\ (calls[k].poolnull \/ calls[k].num_tok >= FieldCount))
    => calls[k].ret = FieldCount

C4_Witness ==
  /\ Len(calls) = 2
  /\ Fresh(1) /\ calls[1].poolnull
  /\ Fresh(2) /\ ~calls[2].poolnull /\ calls[2].num_tok >= FieldCount
  /\ NoQuoteByte /\ ProperlySeparated
  /\ cfg.skip_ws /\ ~SpaceOnlyField
  /\ \E i \in 1..textlen : Buf[i] = SPACE
  /\ \E i \in 1..textlen : Buf[i] = CSVN_NEWLINE
  /\ FieldCount = 3
  /\ calls[1].ret = 3 /\ calls[2].ret = 3

(* C5: every stored unquoted field, the last one of the buffer included,   *)
(* has start <= end < textlen and no delimiter or newline in               *)
(* buffer[start..=end].                                                    *)
C5_SpanIsFieldText ==
  (InFirstCall /\ NoQuoteByte /\ WithinCapacity) =>
    \A i \in 0..MaxTok :
      (Written(i) /\ tokens[i].token # "EMPTY") =>
        /\ tokens[i].start <= tokens[i].end
        /\ tokens[i].end < textlen
        /\ \A p \in tokens[i].start..tokens[i].end : ~IsSep(text[p + 1])

(* C6: descriptors of unquoted fields have kind TEXT; on an input without  *)
(* quote bytes no descriptor has kind DQUOTE.                              *)
C6_KindTellsQuoting ==
  (InFirstCall /\ NoQuoteByte /\ WithinCapacity) =>
    \A i \in 0..MaxTok : tokens[i].token # "DQUOTE"

(* C7 as stated: for the input "a""b" the call returns 1 and the text      *)
(* reconstructed from the one descriptor is a"b.                           *)
C7_Original ==
  (/\ text = SampleEscaped /\ textlen = Len(text)
   /\ InFirstCall /\ pc = "idle" /\ ~poolnull /\ num_tok >= 1)
  => /\ calls[1].ret = 1
     /\ get_parsed(tokens[0]) = <<"a", "\"", "b">>

(* C7 amended: a quoted field whose body holds doubled quotes (and         *)
(* possibly delimiters) is one field of kind DQUOTE whose span is the raw  *)
(* body between the enclosing quotes, the doubled quote kept as two bytes: *)
(* for "a""b" the call returns 1 and buffer[start..=end] is a""b.          *)
C7_OneQuotedField ==
  (/\ OneQuotedField
   /\ InFirstCall /\ pc = "idle"
   /\ (poolnull \/ num_tok >= 1))
  => /\ calls[1].ret = 1
     /\ ~poolnull =>
          /\ toknext = 1
          /\ tokens[0].token = "DQUOTE"
          /\ tokens[0].start = 1
          /\ tokens[0].end = Len(text) - 2
          /\ text = SampleEscaped =>
               SubSeq(text, tokens[0].start + 1, tokens[0].end + 1)
                 = <<"a", "\"", "\"", "b">>

C7_Witness ==
  /\ text = SampleEscaped /\ textlen = Len(text)
  /\ InFirstCall /\ pc = "idle" /\ ~poolnull /\ num_tok >= 1
  /\ calls[1].ret = 1
  /\ tokens[0].token = "DQUOTE"
  /\ tokens[0].start = 1 /\ tokens[0].end = 4

(* C8: without CSVN_CONSIDER_NL, when the only newlines of the text lie    *)
(* inside the quoted field that opens it, that field and every field after *)
(* it carry the line on which the quoted field opened (line 1).            *)
C8_QuotedNewlineKeepsLine ==
  (/\ InFirstCall /\ ~poolnull /\ WithinCapacity
   /\ Len(text) >= 1 /\ text[1] = QUOTE
   /\ Written(0)
   /\ \A p \in 0..(Len(text) - 1) :
        text[p + 1] = CSVN_NEWLINE => (tokens[0].start <= p /\ p <= tokens[0].end))
  => \A i \in 0..MaxTok : Written(i) => tokens[i].line = 1

(* C9: on an input without quote bytes, parsed from a fresh cursor, every  *)
(* stored descriptor's line is 1 plus the number of newline bytes before   *)
(* its start offset.                                                       *)
C9_LineCountsNewlines ==
  (InFirstCall /\ NoQuoteByte) =>
    \A i \in 0..MaxTok :
      Written(i) => tokens[i].line = 1 + NewlinesBefore(tokens[i].start)

C9_Witness ==
  /\ InFirstCall /\ pc = "idle" /\ NoQuoteByte
  /\ text = SampleLines /\ textlen = Len(text)
  /\ calls[1].ret = 4
  /\ tokens[0].line = 1 /\ tokens[1].line = 1
  /\ tokens[2].line = 2 /\ tokens[3].line = 2

(* C10: for the input a,,b a fresh call returns 3 under the default        *)
(* policy with the middle descriptor of kind EMPTY, INVALID_CHARACTER      *)
(* under CSVN_NO_EMPTY_FIELD and 2, with no EMPTY descriptor, under        *)
(* CSVN_IGNORE_EMPTY_FIELD, counting or storing alike.                     *)
C10_EmptyFieldPolicies ==
  (text = SampleEmpty /\ textlen = Len(text)) =>
    \A k \in 1..Len(calls) :
      (Fresh(k) /\ (calls[k].poolnull \/ calls[k].num_tok >= 3)) =>
        /\ cfg.no_empty => calls[k].ret = INVALID_CHARACTER
        /\ cfg.ignore_empty =>
             /\ calls[k].ret = 2
             /\ ~calls[k].poolnull => calls[k].toknext = 2
             /\ \A i \in 0..MaxTok : tokens[i].token # "EMPTY"
        /\ (~cfg.no_empty /\ ~cfg.ignore_empty) =>
             /\ calls[k].ret = 3
             /\ ~calls[k].poolnull =>
                  /\ calls[k].toknext = 3
                  /\ tokens[1].token = "EMPTY"
                  /\ tokens[0].token # "EMPTY" /\ tokens[2].token # "EMPTY"

C10_Witness ==
  /\ text = SampleEmpty /\ textlen = Len(text)
  /\ ~cfg.no_empty /\ ~cfg.ignore_empty
  /\ Len(calls) = 2
  /\ Fresh(1) /\ calls[1].poolnull /\ calls[1].ret = 3
  /\ Fresh(2) /\ ~calls[2].poolnull /\ calls[2].num_tok = 3 /\ calls[2].ret = 3
  /\ tokens[1].token = "EMPTY"

(* ---------------------------------------------------------------------- *)
(* C11..C20                                                                *)
(* ---------------------------------------------------------------------- *)

(* The strict grammar read off the declared buffer, byte i being Buf[i]:   *)
(* StrictFaultAt(i) at the start of a field, StrictFaultQuoted(i) inside a *)
(* quoted field, StrictFaultPlain(i) inside an unquoted one.  TRUE when a  *)
(* closing quote is followed inside the buffer by a byte other than the    *)
(* delimiter or the newline, or an unquoted field holds a quote byte.      *)
RECURSIVE StrictFaultAt(_), StrictFaultQuoted(_), StrictFaultPlain(_), PastSpaces(_)

PastSpaces(i) == IF i <= textlen /\ Buf[i] = SPACE THEN PastSpaces(i + 1) ELSE i

StrictFaultAt(i) ==
  IF i > textlen THEN FALSE
  ELSE IF Buf[i] = CSVN_NEWLINE THEN StrictFaultAt(i + 1)
  ELSE IF Buf[i] = CSVN_DELIM
       THEN StrictFaultAt(IF cfg.skip_ws THEN PastSpaces(i + 1) ELSE i + 1)
  ELSE IF Buf[i] = QUOTE THEN StrictFaultQuoted(i + 1)
  ELSE StrictFaultPlain(i)

StrictFaultQuoted(i) ==
  IF i >= textlen THEN FALSE
  ELSE IF Buf[i] # QUOTE THEN StrictFaultQuoted(i + 1)
  ELSE IF Buf[i + 1] = QUOTE THEN StrictFaultQuoted(i + 2)
  ELSE IF IsSep(Buf[i + 1]) THEN StrictFaultAt(i + 1)
  ELSE TRUE

StrictFaultPlain(i) ==
  IF i > textlen THEN FALSE
  ELSE IF Buf[i] = QUOTE THEN TRUE
  ELSE IF IsSep(Buf[i]) THEN StrictFaultAt(i)
  ELSE StrictFaultPlain(i + 1)

(* C11: with CSVN_STRICT, a call from the initialised cursor that does not *)
(* run out of token space returns INVALID_CHARACTER when a closing quote   *)
(* is followed by a byte other than delimiter, newline or end of input, or *)
(* when an unquoted field holds a quote byte; without such a fault (and    *)
(* without CSVN_NO_EMPTY_FIELD, which has an error of its own) the input   *)
(* is accepted and a count is returned.                                    *)
C11_StrictErrors ==
  cfg.strict =>
    \A k \in 1..Len(calls) :
      (Fresh(k) /\ calls[k].ret # NOT_ENOUGH_MEM) =>
        /\ StrictFaultAt(1) => calls[k].ret = INVALID_CHARACTER
        /\ (~StrictFaultAt(1) /\ ~cfg.no_empty) => calls[k].ret >= 0

C11_Witness ==
  /\ cfg.strict
  /\ text = SampleStrict /\ textlen = Len(text)
  /\ Len(calls) = 1 /\ Fresh(1)
  /\ calls[1].ret = INVALID_CHARACTER
  /\ calls[1].pos = 3

(* C12: whenever csvn_parse returns INVALID_CHARACTER, the pos it leaves   *)
(* is an offset inside the declared buffer, 0 <= pos < textlen.            *)
C12_ErrorPosInBuffer ==
  \A k \in 1..Len(calls) :
    calls[k].ret = INVALID_CHARACTER =>
      (0 <= calls[k].pos /\ calls[k].pos < textlen)

(* C13: csvn_parse never reads a byte of text at an offset >= textlen:     *)
(* the largest offset read by the running call, and by every call that has *)
(* returned, is below textlen.                                             *)
C13_NoReadPastTextlen ==
  /\ pc # "idle" => maxread < textlen
  /\ \A k \in 1..Len(calls) : calls[k].maxread < textlen

(* C14: under the default empty-field policy, with the whole text declared, *)
(* every EMPTY descriptor stored inside the declared capacity has zero     *)
(* span: size = end - start = 0.                                           *)
C14_EmptyZeroSpan ==
  (~cfg.no_empty /\ ~cfg.ignore_empty /\ textlen = Len(text)) =>
    \A i \in 0..MaxTok :
      (i < num_tok /\ tokens[i].token = "EMPTY") =>
        (tokens[i].size = 0 /\ tokens[i].end - tokens[i].start = 0)

C16_Terminates ==
  /\ [][/\ (pc # "idle" /\ pc' = "loop") => (pos' > iterpos /\ iterpos' = pos')
        /\ (pc = pc' /\ pc \in {"quotes", "normal"}) => pos' > pos]_vars
  /\ (pc # "idle") ~> (pc = "idle" /\ Len(calls) = 1)

(* A call entered in the middle of the buffer has gone round the dispatch  *)
(* loop and returned a count.                                              *)
C16_Witness ==
  /\ pc = "idle" /\ Len(calls) = 1
  /\ calls[1].entry.pos > 0
  /\ calls[1].entry.pos < textlen
  /\ calls[1].ret >= 1
  /\ calls[1].pos > calls[1].entry.pos

(* C17: over the calls made on one cursor and tokpool, csvn_init apart,    *)
(* toknext never decreases; a step that changes a descriptor changes the   *)
(* one slot toknext names, leaves it filled and moves toknext past it, so  *)
(* no slot is written twice and none below the toknext the call was        *)
(* entered with.                                                           *)
C17_SlotsWrittenOnce ==
  [][~(pc = "idle" /\ pc' = "idle") =>
       /\ toknext' >= toknext
       /\ toknext' >= entry'.toknext
       /\ \A i \in 0..MaxTok :
            tokens'[i] # tokens[i] =>
              /\ i = toknext
              /\ toknext' = toknext + 1
              /\ i >= entry'.toknext
              /\ tokens'[i].token \in {"DQUOTE", "EMPTY"}]_vars

(* A second call on the same cursor, entered with slots already in use,    *)
(* has stored a further slot above them.                                   *)
C17_Witness ==
  /\ Len(calls) = 2
  /\ calls[2].entry.toknext >= 1
  /\ calls[2].toknext > calls[2].entry.toknext
  /\ ~calls[2].poolnull
  /\ calls[2].toknext <= num_tok
  /\ Written(calls[2].entry.toknext)
  /\ Written(calls[2].entry.toknext - 1)

(* C18: whenever csvn_parse has returned, with a count or with an error,   *)
(* every slot with index in [0, toknext) holds a filled descriptor: its    *)
(* kind is not UNASSIGN (nor is the slot untouched).                       *)
C18_NoUnassignedOnReturn ==
  (pc = "idle" /\ Len(calls) >= 1) =>
    \A i \in 0..(toknext - 1) : tokens[i].token \in {"DQUOTE", "EMPTY"}

(* A call has returned an error after it had allocated and filled slots.   *)
C18_Witness ==
  /\ pc = "idle" /\ Len(calls) = 1
  /\ calls[1].ret < 0
  /\ toknext >= 1 /\ toknext <= num_tok
  /\ tokens[toknext - 1].token = "DQUOTE"

(* C19: with the whole text declared, every descriptor stored inside the   *)
(* declared capacity satisfies 0 <= start <= end and size = end - start    *)
(* >= 0.                                                                   *)
C19_SpanWellFormed ==
  textlen = Len(text) =>
    \A i \in 0..MaxTok :
      (i < num_tok /\ Written(i)) =>
        /\ 0 <= tokens[i].start
        /\ tokens[i].start <= tokens[i].end
        /\ tokens[i].size = tokens[i].end - tokens[i].start
        /\ tokens[i].size >= 0

(* Offsets of the declared buffer at which a delimiter is directly         *)
(* followed by a delimiter.                                                *)
AdjacentDelims ==
  Cardinality({i \in 1..(textlen - 1) :
                 Buf[i] = CSVN_DELIM /\ Buf[i + 1] = CSVN_DELIM})

(* Maximal runs of bytes other than delimiter and newline.                 *)
PlainFields ==
  Cardinality({i \in 1..textlen :
                 ~IsSep(Buf[i]) /\ (i = 1 \/ IsSep(Buf[i - 1]))})

EmptyStored == Cardinality({i \in 0..(toknext - 1) : tokens[i].token = "EMPTY"})

(* C20: under the default empty-field policy without CSVN_SKIP_WHITESPACE, *)
(* for an input without quote bytes, a call from the initialised cursor    *)
(* counts one empty field, and stores one EMPTY descriptor, for each       *)
(* offset at which a delimiter is directly followed by a delimiter, and    *)
(* none for a delimiter at the start of a row, before a newline or at the  *)
(* end of the input.                                                       *)
C20_EmptyPerAdjacentPair ==
  (~cfg.no_empty /\ ~cfg.ignore_empty /\ ~cfg.skip_ws /\ NoQuoteByte) =>
    \A k \in 1..Len(calls) :
      (Fresh(k) /\ calls[k].ret >= 0) =>
        /\ calls[k].ret = PlainFields + AdjacentDelims
        /\ (k = Len(calls) /\ pc = "idle" /\ pos = calls[k].pos
              /\ ~calls[k].poolnull /\ toknext <= num_tok)
             => EmptyStored = AdjacentDelims

====
